---- MODULE Spec2Model ----
(***************************************************************************)
(* Model of the real-time medication checker (static/js/med-checker.js):   *)
(* the debounced input listeners, the asynchronous check of one row, the   *)
(* rendering of its result into the row's warning container and the row's  *)
(* severity classes.                                                       *)
(*                                                                         *)
(* The page is single-threaded: every action below is one task of the      *)
(* event loop (an event listener, a timer callback, or the continuation of *)
(* checkMedicationRealtime after its awaits).  Timers are untimed: a       *)
(* pending timer fires at some later step, which is the delay elapsing.    *)
(***************************************************************************)
EXTENDS Integers, Sequences, FiniteSets, TLC

\* ---------------------------------------------------------------- bounds
NumRows == 2          \* medication rows in the form
MaxInflight == 2      \* requests of one row awaiting their response
MaxInit == 2          \* calls of initializeMedicationChecker, the one at load included
MaxDismiss == 1       \* pending dismissal timers of one row
MaxWarnings == 2      \* warnings in one response
MaxLiveWarnings == 1  \* warnings in one response while checks race each other
MaxSearches == 2      \* suggestion requests of one field awaiting their response

Rows == 1..NumRows

\* ------------------------------------------------------------ JS strings
\* A string is a sequence of characters; " " is the only whitespace used.
IsSpace(c) == c = " "

RECURSIVE TrimStart(_)
TrimStart(s) ==
    IF s = <<>> THEN <<>>
    ELSE IF IsSpace(Head(s)) THEN TrimStart(Tail(s)) ELSE s

RECURSIVE TrimEnd(_)
TrimEnd(s) ==
    IF s = <<>> THEN <<>>
    ELSE IF IsSpace(s[Len(s)]) THEN TrimEnd(SubSeq(s, 1, Len(s) - 1)) ELSE s

\* Faulty variant of Trim: the value is used untrimmed.
Trim_Untrimmed(s) == s

\* String.prototype.trim
Trim(s) == TrimEnd(TrimStart(s))

\* What a user can type into a medication-name field.
InputValues == { <<>>, <<" ">>, <<" ", "a", " ">> }

\* ------------------------------------------------- warning container DOM
\* innerHTML of a .live-warning-container is a sequence of blocks.
Block(cls, sev, text) == [cls |-> cls, severity |-> sev, text |-> text]

LoaderBlock == Block("checking-loader", "", "Checking...")
SafeBlock == Block("warning-safe", "", "No immediate concerns detected")
ErrorBlock == Block("warning-error", "", "Error checking medication")
UnableBlock == Block("warning-error", "", "Unable to check medication")

\* The block displayWarnings builds for one warning of the response.
WarningBlock(w) == Block("live-warning", w.severity, w.title)

SeverityClasses ==
    {"has-high-warning", "has-moderate-warning", "has-low-warning", "is-safe"}

\* ------------------------------------------------------ service responses
\* JavaScript's undefined, for a field the response body does not carry.
Undef == "undefined"
Tri == {"true", "false", Undef}

\* Truthiness of a JSON boolean-or-missing field.
Truthy(x) == x = "true"

Severities == {"high", "moderate", "low"}

\* A warning of the service; a warning without a severity field is malformed.
Warning(sev, i) == [severity |-> sev, title |-> ToString(i)]

WarningLists ==
    UNION { { [i \in 1..n |-> Warning(sevs[i], i)] :
                sevs \in [1..n -> Severities \cup {Undef}] } : n \in 0..MaxWarnings }

\* What can come back for one fetch of /api/check-medication:
\*   reject       fetch() rejects (network failure)
\*   unparseable  a response whose body is not JSON: response.json() rejects
\*   null         the JSON body is null
\*   json         the JSON body is an object; success, warnings and safe are
\*                its fields, each possibly missing
\* ok is the HTTP status being 2xx.
Response(kind, ok, success, hasWarnings, warnings, safe) ==
    [kind |-> kind, ok |-> ok, success |-> success,
     hasWarnings |-> hasWarnings, warnings |-> warnings, safe |-> safe]

\* The checker never reads the status, so a non-2xx status is only varied on
\* the bodies an error response carries; a body with success: true carries
\* safe: false whenever it lists warnings.
Responses ==
    { Response("reject", FALSE, Undef, FALSE, <<>>, Undef) }
    \cup { Response(k, ok, Undef, FALSE, <<>>, Undef) :
             k \in {"unparseable", "null"}, ok \in BOOLEAN }
    \cup { Response("json", ok, s, FALSE, <<>>, Undef) :
             ok \in BOOLEAN, s \in {"false", Undef} }
    \cup { Response("json", TRUE, "true", FALSE, <<>>, safe) : safe \in Tri }
    \cup { Response("json", TRUE, "true", TRUE, <<>>, safe) : safe \in Tri }
    \cup { Response("json", TRUE, "true", TRUE, ws, "false") :
             ws \in WarningLists \ {<<>>} }

\* The responses drawn while checks race each other: the status agrees with
\* the success flag, the warning list is short and its warnings are well
\* formed.  Every response of Responses is applied under SpecRender.
LiveResponses ==
    { resp \in Responses :
        /\ resp.ok = Truthy(resp.success)
        /\ Len(resp.warnings) <= MaxLiveWarnings
        /\ \A i \in 1..Len(resp.warnings) : resp.warnings[i].severity \in Severities }

\* ------------------------------------------------------------- rendering
\* The DOM of one medication row as the checker sees it: the innerHTML and
\* style.display of its warning container ("absent": no container yet,
\* "": display not set) and the severity classes of the row.
RowUI(html, display, classes) ==
    [html |-> html, display |-> display, classes |-> classes]

\* !warnings || warnings.length === 0
NoWarnings(hasWarnings, warnings) == ~hasWarnings \/ Len(warnings) = 0

\* Faulty variant of displayWarnings: the blocks are appended to what the container
\* holds instead of replacing it.
displayWarnings_Append(ui, hasWarnings, warnings, isSafe) ==
    IF NoWarnings(hasWarnings, warnings)
    THEN IF Truthy(isSafe)
         THEN [ui |-> [ui EXCEPT !.html = @ \o <<SafeBlock>>], armed |-> 1, threw |-> FALSE]
         ELSE [ui |-> [ui EXCEPT !.display = "none"], armed |-> 0, threw |-> FALSE]
    ELSE IF \E i \in 1..Len(warnings) : warnings[i].severity = Undef
         THEN [ui |-> ui, armed |-> 0, threw |-> TRUE]
         ELSE [ui |-> [ui EXCEPT !.html = @ \o [i \in 1..Len(warnings) |-> WarningBlock(warnings[i])],
                                 !.display = "block"],
               armed |-> 0, threw |-> FALSE]

\* displayWarnings(container, warnings, isSafe): the container afterwards,
\* the number of dismissal timers armed, and whether it threw (a warning
\* without severity: warning.severity.toUpperCase() is a TypeError, raised
\* before innerHTML is assigned).
displayWarnings(ui, hasWarnings, warnings, isSafe) ==
    IF NoWarnings(hasWarnings, warnings)
    THEN IF Truthy(isSafe)
         THEN [ui |-> [ui EXCEPT !.html = <<SafeBlock>>], armed |-> 1, threw |-> FALSE]
         ELSE [ui |-> [ui EXCEPT !.display = "none"], armed |-> 0, threw |-> FALSE]
    ELSE IF \E i \in 1..Len(warnings) : warnings[i].severity = Undef
         THEN [ui |-> ui, armed |-> 0, threw |-> TRUE]
         ELSE [ui |-> [ui EXCEPT !.html = [i \in 1..Len(warnings) |-> WarningBlock(warnings[i])],
                                 !.display = "block"],
               armed |-> 0, threw |-> FALSE]

\* Faulty variant of updateRowStyling: the classes of the previous result are not
\* removed before the new one is added.
updateRowStyling_NoRemove(ui, hasWarnings, warnings) ==
    LET hasHigh == \E i \in 1..Len(warnings) : warnings[i].severity = "high"
        hasModerate == \E i \in 1..Len(warnings) : warnings[i].severity = "moderate"
    IN  IF NoWarnings(hasWarnings, warnings)
        THEN [ui EXCEPT !.classes = @ \cup {"is-safe"}]
        ELSE IF hasHigh
             THEN [ui EXCEPT !.classes = @ \cup {"has-high-warning"}]
             ELSE IF hasModerate
                  THEN [ui EXCEPT !.classes = @ \cup {"has-moderate-warning"}]
                  ELSE [ui EXCEPT !.classes = @ \cup {"has-low-warning"}]

\* updateRowStyling(row, warnings)
updateRowStyling(ui, hasWarnings, warnings) ==
    LET removed == ui.classes \ SeverityClasses
        hasHigh == \E i \in 1..Len(warnings) : warnings[i].severity = "high"
        hasModerate == \E i \in 1..Len(warnings) : warnings[i].severity = "moderate"
    IN  IF NoWarnings(hasWarnings, warnings)
        THEN [ui EXCEPT !.classes = removed \cup {"is-safe"}]
        ELSE IF hasHigh
             THEN [ui EXCEPT !.classes = removed \cup {"has-high-warning"}]
             ELSE IF hasModerate
                  THEN [ui EXCEPT !.classes = removed \cup {"has-moderate-warning"}]
                  ELSE [ui EXCEPT !.classes = removed \cup {"has-low-warning"}]

\* The catch block of checkMedicationRealtime.
catchError(ui) == [ui EXCEPT !.html = <<UnableBlock>>]

\* checkMedicationRealtime from the resolution of fetch() to its end: the
\* row afterwards, the dismissal timers armed, and whether an exception
\* escaped the function.
handleResponse(ui, resp) ==
    IF resp.kind \in {"reject", "unparseable", "null"}
    THEN [ui |-> catchError(ui), armed |-> 0, escaped |-> FALSE]
    ELSE IF Truthy(resp.success)
         THEN LET shown == displayWarnings(ui, resp.hasWarnings, resp.warnings, resp.safe)
              IN  IF shown.threw
                  THEN [ui |-> catchError(shown.ui), armed |-> shown.armed, escaped |-> FALSE]
                  ELSE [ui |-> updateRowStyling(shown.ui, resp.hasWarnings, resp.warnings),
                        armed |-> shown.armed, escaped |-> FALSE]
         ELSE [ui |-> [ui EXCEPT !.html = <<ErrorBlock>>], armed |-> 0, escaped |-> FALSE]

\* -------------------------------------------------- the check, first half
\* Lines 62-67: the container is created when the row has none.
createContainer(ui) ==
    IF ui.display = "absent" THEN [ui EXCEPT !.html = <<>>, !.display = ""] ELSE ui

\* Lines 71-72.
clearWarnings(ui) == [ui EXCEPT !.html = <<>>, !.display = "none"]

\* Faulty variant of showLoading: the loader is written but the container is not
\* made visible.
showLoading_NotVisible(ui) == [ui EXCEPT !.html = <<LoaderBlock>>]

\* Lines 77-78.
showLoading(ui) == [ui EXCEPT !.html = <<LoaderBlock>>, !.display = "block"]

\* The loading state as the user sees it.
IsLoading(ui) == ui.html = <<LoaderBlock>> /\ ui.display = "block"

\* ------------------------------------------------------ the form snapshot
\* A letter as String.prototype.toLowerCase leaves it.
LowerChar(c) == IF c = "A" THEN "a" ELSE IF c = "B" THEN "b" ELSE c

\* Faulty variant of ToLower: the string is compared as typed.
ToLower_AsTyped(s) == s

\* String.prototype.toLowerCase.
ToLower(s) == [n \in 1..Len(s) |-> LowerChar(s[n])]

\* An input element of the form, or its absence (querySelector and
\* getElementById return null).
Absent == [present |-> FALSE, value |-> <<>>]
Field(s) == [present |-> TRUE, value |-> s]

\* The contents of a doses-per-day or age input: no such input, empty,
\* not a number, zero, a number of two digits.
NumberInputs ==
    { Absent, Field(<<>>), Field(<<"x">>), Field(<<"0">>), Field(<<"1", "2">>) }

\* A JavaScript number as parseInt returns it: NaN or an integer.
NaN == [nan |-> TRUE, n |-> 0]
Num(n) == [nan |-> FALSE, n |-> n]

Digits == {"0", "1", "2", "3", "4", "5", "6", "7", "8", "9"}

DigitValue(c) ==
    CASE c = "0" -> 0 [] c = "1" -> 1 [] c = "2" -> 2 [] c = "3" -> 3 [] c = "4" -> 4
      [] c = "5" -> 5 [] c = "6" -> 6 [] c = "7" -> 7 [] c = "8" -> 8 [] c = "9" -> 9

\* The value of the longest prefix of digits of s, acc being the value of
\* the digits read, and whether a digit was read at all.
RECURSIVE ReadDigits(_, _, _)
ReadDigits(s, acc, any) ==
    IF s # <<>> /\ Head(s) \in Digits
    THEN ReadDigits(Tail(s), acc * 10 + DigitValue(Head(s)), TRUE)
    ELSE [any |-> any, n |-> acc]

\* parseInt(string): leading white space skipped, an optional sign, then the
\* longest prefix of decimal digits; NaN when there is no digit.
parseInt(s) ==
    LET t == TrimStart(s)
        signed == t # <<>> /\ Head(t) \in {"-", "+"}
        read == ReadDigits(IF signed THEN Tail(t) ELSE t, 0, FALSE)
    IN  IF ~read.any THEN NaN
        ELSE IF signed /\ Head(t) = "-" THEN Num(0 - read.n) ELSE Num(read.n)

\* parseInt(input?.value || fallback): the fallback number is taken when the
\* input is absent or its value is the empty string, the only falsy string.
parseIntOr(input, fallback) ==
    IF ~input.present \/ input.value = <<>> THEN Num(fallback)
    ELSE parseInt(input.value)

DefaultDoses == 1
DefaultAge == 65

\* getCurrentMedications(): one entry per row whose trimmed name is not
\* empty, in the order of the rows.
RECURSIVE getCurrentMedications(_, _, _)
getCurrentMedications(names, doses, n) ==
    IF n = 0 THEN <<>>
    ELSE LET before == getCurrentMedications(names, doses, n - 1)
         IN  IF Trim(names[n]) # <<>>
             THEN Append(before, [name |-> Trim(names[n]),
                                  doses_per_day |-> parseIntOr(doses[n], DefaultDoses)])
             ELSE before

\* getPatientAge().
getPatientAge(ageInput) == parseIntOr(ageInput, DefaultAge)

\* Lines 83-85: the medications other than the one under check.
existingMeds(allMeds, medicationName) ==
    SelectSeq(allMeds, LAMBDA med : ToLower(med.name) # ToLower(medicationName))

\* A request in flight.  medication_name, existing_medications and age are
\* the body; the other fields are history: whether the row showed the loader
\* when fetch() was called, and whether the response of a request issued
\* later for the same row has already arrived.
Request(name, existing, age, atFetch) ==
    [medication_name |-> name, existing_medications |-> existing, age |-> age,
     loaderAtSend |-> IsLoading(atFetch), superseded |-> FALSE]

\* checkMedicationRealtime(inputElement) up to its first await: the row
\* afterwards and the requests sent (none or one).  allMeds and age are what
\* getCurrentMedications() and getPatientAge() read from the form.
checkMedicationRealtime(ui, value, allMeds, age) ==
    LET medicationName == Trim(value)
        created == createContainer(ui)
    IN  IF medicationName = <<>>
        THEN [ui |-> clearWarnings(created), sent |-> <<>>]
        ELSE LET loading == showLoading(created)
                 existing == existingMeds(allMeds, medicationName)
             IN  [ui |-> loading,
                  sent |-> <<Request(medicationName, existing, age, loading)>>]

\* n listeners of one event calling checkMedicationRealtime one after the
\* other on the same input.
RECURSIVE checkTimes(_, _, _, _, _)
checkTimes(ui, value, allMeds, age, n) ==
    IF n = 0 THEN [ui |-> ui, sent |-> <<>>]
    ELSE LET first == checkMedicationRealtime(ui, value, allMeds, age)
             rest == checkTimes(first.ui, value, allMeds, age, n - 1)
         IN  [ui |-> rest.ui, sent |-> first.sent \o rest.sent]

\* ---------------------------------------------------------- autocomplete
\* search() does nothing but hide the panel for a query shorter than this.
MinQueryLength == 2

\* The names the suggestion service proposes.
Candidates == { <<"a", "b">>, <<"a", "c">> }

CandidateLists ==
    { <<>>, << <<"a", "b">> >>, << <<"a", "c">> >>, << <<"a", "b">>, <<"a", "c">> >> }

\* What can come back for one fetch of /api/drug-suggest: fetch() rejects,
\* or a JSON body with its success flag and its suggestions.
SuggestResponse(kind, success, suggestions) ==
    [kind |-> kind, success |-> success, suggestions |-> suggestions]

SuggestResponses ==
    { SuggestResponse("reject", FALSE, <<>>), SuggestResponse("json", FALSE, <<>>) }
    \cup { SuggestResponse("json", TRUE, names) : names \in CandidateLists }

\* The suggestion panel: container.className has 'active', and the names of
\* its items.
Panel(active, items) == [active |-> active, items |-> items]

\* DrugAutocomplete.hide()
hide == Panel(FALSE, <<>>)

\* DrugAutocomplete.show(suggestions)
show(suggestions) == Panel(TRUE, suggestions)

\* A suggestion request in flight: its query, and, as history, whether since
\* it started a later search was started, the query dropped below
\* MinQueryLength, or a candidate was selected.
Search(query) == [q |-> query, stale |-> FALSE]

Outdated(searches) == [n \in 1..Len(searches) |-> [searches[n] EXCEPT !.stale = TRUE]]

\* One DrugAutocomplete as constructed: no timer pending, no request in
\* flight, the container empty and not active.
DrugAutocomplete == [timeout |-> FALSE, searches |-> <<>>, panel |-> hide]

\* DrugAutocomplete.search(query) up to its first await.
search(ac, query) ==
    IF Len(query) < MinQueryLength
    THEN [ac EXCEPT !.panel = hide, !.searches = Outdated(@)]
    ELSE [ac EXCEPT !.searches = Append(Outdated(@), Search(query))]

\* DrugAutocomplete.search from the resolution of fetch() to its end.
suggested(resp) ==
    IF resp.kind = "json" /\ resp.success /\ Len(resp.suggestions) > 0
    THEN show(resp.suggestions)
    ELSE hide

\* ----------------------------------------------------------------- state
VARIABLES
    value,       \* value[r]: the text in the medication-name input of row r
    ui,          \* ui[r]: warning container and severity classes of row r
    inflight,    \* inflight[r]: requests of row r awaiting their response, oldest first
    dismiss,     \* dismiss[r]: pending 2-second timers armed by displayWarnings on row r
    debouncers,  \* one entry per initializeMedicationChecker call: the row whose
                 \* input the pending timer of that debouncedCheck will check, 0 if none
    unhandled,   \* an exception has escaped checkMedicationRealtime
    form,        \* form.doses[r]: the doses-per-day input of row r; form.age: the
                 \* age input of the page
    autocomplete,\* autocomplete[r]: the DrugAutocomplete of the name input of row r
    newest,      \* history: newest[r].pending: the request sent last for row r is
                 \* still in flight (it is then the last of inflight[r]);
                 \* newest[r].classes: the row's classes when its check was invoked
    burst        \* history: the row of the last input event, the number of
                 \* checks the debounce timers have run since that event, and
                 \* whether a request has been sent for that row since that event

vars == <<value, ui, inflight, dismiss, debouncers, unhandled, form, autocomplete,
          newest, burst>>

NoTimer == 0

\* debounce(func, wait) called once: no timer pending.
debounce == NoTimer

\* The page as loaded: the script has run initializeMedicationChecker once,
\* every row has its blur and input listeners, no row has a container yet.
Init ==
    /\ value = [r \in Rows |-> <<>>]
    /\ ui = [r \in Rows |-> RowUI(<<>>, "absent", {})]
    /\ inflight = [r \in Rows |-> <<>>]
    /\ dismiss = [r \in Rows |-> 0]
    /\ debouncers = <<debounce>>
    /\ unhandled = FALSE
    /\ form = [doses |-> [r \in Rows |-> Field(<<>>)], age |-> Field(<<>>)]
    /\ autocomplete = [r \in Rows |-> DrugAutocomplete]
    /\ newest = [r \in Rows |-> [pending |-> FALSE, classes |-> {}]]
    /\ burst = [row |-> 0, checks |-> 0, requested |-> FALSE]

\* executedFunction(input) of one debouncedCheck: clearTimeout, setTimeout.
executedFunction(timeout, r) == r

\* The row's state after the listeners of one event have each called
\* checkMedicationRealtime: guard of the in-flight bound, then the effect.
CanCheck(r, n) ==
    Trim(value[r]) # <<>> => Len(inflight[r]) + n <= MaxInflight

\* Faulty variant of RunChecks: the container is looked up in the document, which
\* yields that of the first row, not in the row of the input.
RunChecks_FirstContainer(r, n) ==
    LET allMeds == getCurrentMedications(value, form.doses, NumRows)
        done == checkTimes(ui[1], value[r], allMeds, getPatientAge(form.age), n)
    IN  /\ ui' = [ui EXCEPT ![1] = done.ui]
        /\ inflight' = [inflight EXCEPT ![r] = @ \o done.sent]
        /\ newest' = IF done.sent = <<>> THEN newest
                      ELSE [newest EXCEPT ![r] = [pending |-> TRUE, classes |-> ui[r].classes]]

RunChecks(r, n) ==
    LET allMeds == getCurrentMedications(value, form.doses, NumRows)
        done == checkTimes(ui[r], value[r], allMeds, getPatientAge(form.age), n)
    IN  /\ ui' = [ui EXCEPT ![r] = done.ui]
        /\ inflight' = [inflight EXCEPT ![r] = @ \o done.sent]
        /\ newest' = IF done.sent = <<>> THEN newest
                      ELSE [newest EXCEPT ![r] = [pending |-> TRUE, classes |-> ui[r].classes]]

\* The user edits the name of row r: the input event reaches the input
\* listener of every initializeMedicationChecker call, each of which
\* restarts the timer of its own debouncedCheck, and the input listener of
\* the field's DrugAutocomplete, which restarts its 300 ms timer.
Input(r, v) ==
    /\ v # value[r]
    /\ value' = [value EXCEPT ![r] = v]
    /\ debouncers' = [k \in 1..Len(debouncers) |-> executedFunction(debouncers[k], r)]
    /\ burst' = [row |-> r, checks |-> 0, requested |-> FALSE]
    /\ autocomplete' = [autocomplete EXCEPT ![r].timeout = TRUE]
    /\ UNCHANGED <<ui, inflight, dismiss, unhandled, newest, form>>

\* The 800 ms timer of the k-th debouncedCheck fires: later() runs
\* checkMedicationRealtime on the input of the last call.
Later(k) ==
    /\ k \in 1..Len(debouncers)
    /\ debouncers[k] # NoTimer
    /\ CanCheck(debouncers[k], 1)
    /\ debouncers' = [debouncers EXCEPT ![k] = NoTimer]
    /\ RunChecks(debouncers[k], 1)
    /\ burst' = [burst EXCEPT !.checks = @ + 1,
                              !.requested = @ \/ Trim(value[debouncers[k]]) # <<>>]
    /\ UNCHANGED <<value, dismiss, unhandled, form, autocomplete>>

\* The input of row r loses focus: every blur listener runs the check.
Blur(r) ==
    /\ CanCheck(r, Len(debouncers))
    /\ RunChecks(r, Len(debouncers))
    /\ burst' = [burst EXCEPT !.requested = @ \/ (r = burst.row /\ Trim(value[r]) # <<>>)]
    /\ UNCHANGED <<value, dismiss, debouncers, unhandled, form, autocomplete>>

\* reinitializeMedicationChecker(): a further debouncedCheck and a further
\* pair of listeners on every medication-name input.
reinitializeMedicationChecker ==
    /\ Len(debouncers) < MaxInit
    /\ debouncers' = Append(debouncers, debounce)
    /\ UNCHANGED <<value, ui, inflight, dismiss, unhandled, newest, burst, form, autocomplete>>

\* inflight[r] without its i-th request, the older ones marked superseded.
Settle(reqs, i) ==
    [j \in 1..(Len(reqs) - 1) |->
        IF j < i THEN [reqs[j] EXCEPT !.superseded = TRUE] ELSE reqs[j + 1]]

\* The fetch of the i-th request in flight of row r settles with resp and
\* checkMedicationRealtime runs to its end.
Respond(r, i, resp) ==
    /\ i \in 1..Len(inflight[r])
    /\ LET done == handleResponse(ui[r], resp)
       IN  /\ dismiss[r] + done.armed <= MaxDismiss
           /\ ui' = [ui EXCEPT ![r] = done.ui]
           /\ dismiss' = [dismiss EXCEPT ![r] = @ + done.armed]
           /\ unhandled' = (unhandled \/ done.escaped)
    /\ inflight' = [inflight EXCEPT ![r] = Settle(@, i)]
    /\ newest' = IF newest[r].pending /\ i = Len(inflight[r])
                  THEN [newest EXCEPT ![r] = [pending |-> FALSE, classes |-> {}]]
                  ELSE newest
    /\ UNCHANGED <<value, debouncers, burst, form, autocomplete>>

\* A 2-second timer of displayWarnings fires: container.style.display = 'none'.
Dismiss(r) ==
    /\ dismiss[r] > 0
    /\ dismiss' = [dismiss EXCEPT ![r] = @ - 1]
    /\ ui' = [ui EXCEPT ![r].display = "none"]
    /\ UNCHANGED <<value, inflight, debouncers, unhandled, newest, burst, form, autocomplete>>

\* The 300 ms timer of the autocomplete of row r fires: search() is called
\* with the value the field has by then.
SearchTimer(r) ==
    /\ autocomplete[r].timeout
    /\ Len(value[r]) >= MinQueryLength => Len(autocomplete[r].searches) < MaxSearches
    /\ autocomplete' =
          [autocomplete EXCEPT ![r] = search([@ EXCEPT !.timeout = FALSE], value[r])]
    /\ UNCHANGED <<value, ui, inflight, dismiss, debouncers, unhandled, form, newest, burst>>

\* searches without its i-th request.
Remove(searches, i) ==
    [j \in 1..(Len(searches) - 1) |-> IF j < i THEN searches[j] ELSE searches[j + 1]]

\* The fetch of the i-th suggestion request in flight of row r settles with
\* resp and search() runs to its end.
SuggestRespond(r, i, resp) ==
    /\ i \in 1..Len(autocomplete[r].searches)
    /\ autocomplete' = [autocomplete EXCEPT ![r].panel = suggested(resp),
                                             ![r].searches = Remove(@, i)]
    /\ UNCHANGED <<value, ui, inflight, dismiss, debouncers, unhandled, form, newest, burst>>

\* The user clicks the n-th item of the panel of row r: the name is written
\* into the field (no input event), the panel is hidden and
\* MedChecker.check runs on the field.
Select(r, n) ==
    /\ autocomplete[r].panel.active
    /\ n \in 1..Len(autocomplete[r].panel.items)
    /\ Len(inflight[r]) < MaxInflight
    /\ LET name == autocomplete[r].panel.items[n]
           names == [value EXCEPT ![r] = name]
           done == checkMedicationRealtime(ui[r], name,
                       getCurrentMedications(names, form.doses, NumRows),
                       getPatientAge(form.age))
       IN  /\ value' = names
           /\ ui' = [ui EXCEPT ![r] = done.ui]
           /\ inflight' = [inflight EXCEPT ![r] = @ \o done.sent]
           /\ newest' = [newest EXCEPT ![r] = [pending |-> TRUE, classes |-> ui[r].classes]]
    /\ autocomplete' = [autocomplete EXCEPT ![r].panel = hide,
                                             ![r].searches = Outdated(@)]
    /\ burst' = IF r = burst.row THEN [burst EXCEPT !.requested = TRUE] ELSE burst
    /\ UNCHANGED <<dismiss, debouncers, unhandled, form>>

\* A click outside the panel and the field of row r: hide().
ClickOutside(r) ==
    /\ autocomplete' = [autocomplete EXCEPT ![r].panel = hide]
    /\ UNCHANGED <<value, ui, inflight, dismiss, debouncers, unhandled, form, newest, burst>>

\* The tasks that concern row r alone.
RowNext(r) ==
    \/ \E v \in InputValues : Input(r, v)
    \/ Blur(r)
    \/ \E i \in 1..MaxInflight : \E resp \in LiveResponses : Respond(r, i, resp)
    \/ Dismiss(r)

\* The checks of one row, the other rows left idle: rows share nothing but
\* the debouncers, so what a check does to its row is the same with any
\* number of rows around it.
Next ==
    \/ RowNext(1)
    \/ \E k \in 1..MaxInit : Later(k)
    \/ reinitializeMedicationChecker

Spec == Init /\ [][Next]_vars

\* The checks of one row one after the other, each answered before the next
\* is invoked, with every response the service can give: what the
\* rendering of a response does, races left aside.
NextRender ==
    \/ \E v \in InputValues : Input(1, v)
    \/ inflight[1] = <<>> /\ Blur(1)
    \/ \E k \in 1..MaxInit : inflight[1] = <<>> /\ Later(k)
    \/ \E resp \in Responses : Respond(1, 1, resp)
    \/ Dismiss(1)

SpecRender == Init /\ [][NextRender]_vars

\* The edits of every field and the checks their debounce timers run, each
\* check answered before the next check of its row: what the input
\* listeners of the rows do to each other.
NextFields ==
    \/ \E r \in Rows : \E v \in InputValues : Input(r, v)
    \/ \E k \in 1..MaxInit : Later(k) /\ inflight[debouncers[k]] = <<>>
    \/ \E r \in Rows : \E resp \in LiveResponses : Respond(r, 1, resp)

SpecFields == Init /\ [][NextFields]_vars

\* The results rows are given while their checks interleave: a transport
\* failure, an error reply, the safe reply and a high-severity warning.
RowResponses ==
    { Response("reject", FALSE, Undef, FALSE, <<>>, Undef),
      Response("json", FALSE, "false", FALSE, <<>>, Undef),
      Response("json", TRUE, "true", TRUE, <<>>, "true"),
      Response("json", TRUE, "true", TRUE, <<Warning("high", 1)>>, "false") }

\* A form with a name, or none, in every row.
InitRows ==
    /\ value \in [Rows -> InputValues]
    /\ ui = [r \in Rows |-> RowUI(<<>>, "absent", {})]
    /\ inflight = [r \in Rows |-> <<>>]
    /\ dismiss = [r \in Rows |-> 0]
    /\ debouncers = <<debounce>>
    /\ unhandled = FALSE
    /\ form = [doses |-> [r \in Rows |-> Field(<<>>)], age |-> Field(<<>>)]
    /\ autocomplete = [r \in Rows |-> DrugAutocomplete]
    /\ newest = [r \in Rows |-> [pending |-> FALSE, classes |-> {}]]
    /\ burst = [row |-> 0, checks |-> 0, requested |-> FALSE]

\* The checks of all rows interleaved: a row is checked again once its
\* request is answered, while the requests and the dismissal timers of the
\* other rows are pending.
NextRows ==
    \/ \E r \in Rows : inflight[r] = <<>> /\ Blur(r)
    \/ \E r \in Rows : \E resp \in RowResponses : Respond(r, 1, resp)
    \/ \E r \in Rows : Dismiss(r)

SpecRows == InitRows /\ [][NextRows]_vars

\* The autocomplete of one field: edits, its debounce timer, the responses
\* of the suggestion service in any order, the selection of a candidate and
\* clicks elsewhere.
NextSuggest ==
    \/ \E v \in InputValues : Input(1, v)
    \/ SearchTimer(1)
    \/ \E i \in 1..MaxSearches : \E resp \in SuggestResponses : SuggestRespond(1, i, resp)
    \/ \E n \in 1..Len(autocomplete[1].panel.items) : Select(1, n)
    \/ ClickOutside(1)

SpecSuggest == Init /\ [][NextSuggest]_vars

\* The names a row of the form can hold when a check reads the form: those
\* of InputValues, a name that differs from one of them by case only, and
\* an unrelated name.
FormNames == InputValues \cup { <<"A">>, <<"b">> }

\* A form filled in any way, no check made yet.
InitSnapshot ==
    /\ value \in [Rows -> FormNames]
    /\ ui = [r \in Rows |-> RowUI(<<>>, "absent", {})]
    /\ inflight = [r \in Rows |-> <<>>]
    /\ dismiss = [r \in Rows |-> 0]
    /\ debouncers = <<debounce>>
    /\ unhandled = FALSE
    /\ form \in [doses : [Rows -> NumberInputs], age : NumberInputs]
    /\ autocomplete = [r \in Rows |-> DrugAutocomplete]
    /\ newest = [r \in Rows |-> [pending |-> FALSE, classes |-> {}]]
    /\ burst = [row |-> 0, checks |-> 0, requested |-> FALSE]

\* The check of any one row reads the form and builds its request.
NextSnapshot ==
    \E r \in Rows : (\A q \in Rows : inflight[q] = <<>>) /\ Blur(r)

SpecSnapshot == InitSnapshot /\ [][NextSnapshot]_vars

TypeOK ==
    /\ value \in [Rows -> FormNames \cup Candidates]
    /\ \A r \in Rows : Len(autocomplete[r].searches) <= MaxSearches
    /\ \A r \in Rows : ui[r].display \in {"absent", "none", "block"}
    /\ \A r \in Rows : Len(inflight[r]) <= MaxInflight
    /\ \A r \in Rows : dismiss[r] \in 0..MaxDismiss
    /\ Len(debouncers) \in 1..MaxInit

\* ================================================================ claims
\* C1: staleness suppression.  When two checks of a row were invoked in the
\* order c1, c2 and the response of c2 has arrived, the response of c1
\* (success or failure) arriving afterwards changes neither the row's
\* warning container nor its severity classes.
C1_StaleResponseIgnored ==
    [][\A r \in Rows : \A i \in 1..MaxInflight : \A resp \in Responses :
          (Respond(r, i, resp) /\ inflight[r][i].superseded) => ui'[r] = ui[r]]_vars

\* A check of row r is invoked: by its blur listeners or by a debounce timer.
CheckInvoked(r) ==
    \/ Blur(r)
    \/ \E k \in 1..Len(debouncers) : debouncers[k] = r /\ Later(k)

\* The string is empty once trimmed.
IsBlank(s) == \A n \in 1..Len(s) : IsSpace(s[n])

\* The surface is empty and hidden.
IsCleared(u) == u.html = <<>> /\ u.display = "none"

\* The warning blocks among the blocks of a container.
WarningBlocks(html) == SelectSeq(html, LAMBDA b : b.cls = "live-warning")

\* The error notices among the blocks of a container.
ErrorNotices(html) == SelectSeq(html, LAMBDA b : b.cls = "warning-error")

\* The severity classes a row carries.
Tiers(u) == u.classes \cap SeverityClasses

\* A successful response that lists at least one warning, all well formed.
HasWarnings(resp) ==
    /\ resp.kind = "json" /\ Truthy(resp.success) /\ resp.hasWarnings
    /\ Len(resp.warnings) > 0
    /\ \A n \in 1..Len(resp.warnings) : resp.warnings[n].severity \in Severities

\* A successful response with an empty warning list and the given safe flag.
ZeroWarnings(resp, safe) ==
    /\ resp.kind = "json" /\ Truthy(resp.success) /\ resp.hasWarnings
    /\ Len(resp.warnings) = 0 /\ resp.safe = safe

\* C2: debounce.  A burst of input events on a field followed by the quiet
\* period makes the debounce run the check exactly once: never more than one
\* check since the last input event, and exactly one once no timer is left
\* pending.  (The check reads the value the field has when the timer fires,
\* which is the value after the last edit: Later reads value[r].)
C2_DebounceOnce ==
    burst.row # 0 =>
        /\ burst.checks <= 1
        /\ (\A k \in 1..Len(debouncers) : debouncers[k] = NoTimer) => burst.checks = 1

\* C3: empty input.  A check invoked on a row whose name is empty once
\* trimmed sends no request, does not put the row into the loading state,
\* and leaves the row's warning surface empty and hidden.
C3_EmptyInputClears ==
    [][\A r \in Rows :
          (CheckInvoked(r) /\ IsBlank(value[r])) =>
              /\ inflight' = inflight
              /\ ~IsLoading(ui'[r])
              /\ IsCleared(ui'[r])]_vars

\* C3 witness: a row that showed a high-severity result and whose name was
\* then replaced by a blank: the check has cleared the surface.
C3_Witness ==
    /\ value[1] = <<" ">>
    /\ ui[1] = RowUI(<<>>, "none", {"has-high-warning"})
    /\ inflight[1] = <<>>

\* The warnings of one severity, in the order of the list.
OfSeverity(ws, sev) == SelectSeq(ws, LAMBDA w : w.severity = sev)

\* The list sorted by severity, high first, the order among equals kept.
StableBySeverity(ws) ==
    OfSeverity(ws, "high") \o OfSeverity(ws, "moderate") \o OfSeverity(ws, "low")

\* C4: severity ordering.  The warning blocks rendered for a non-empty
\* warning list are the list stably sorted by severity, high first.
C4_RenderedSorted ==
    [][\A r \in Rows : \A i \in 1..MaxInflight : \A resp \in Responses :
          (Respond(r, i, resp) /\ HasWarnings(resp)) =>
              LET sorted == StableBySeverity(resp.warnings)
              IN  ui'[r].html = [n \in 1..Len(sorted) |-> WarningBlock(sorted[n])]]_vars

\* C5: no-match path.  After a successful response with zero warnings and
\* safe = false the surface is hidden, shows no error notice, and the row
\* carries none of the high, moderate, low and safe classes.
C5_NoMatchNoStyling ==
    [][\A r \in Rows : \A i \in 1..MaxInflight : \A resp \in Responses :
          (Respond(r, i, resp) /\ ZeroWarnings(resp, "false")) =>
              /\ ui'[r].display = "none"
              /\ ErrorNotices(ui'[r].html) = <<>>
              /\ Tiers(ui'[r]) = {}]_vars

\* The i-th request in flight of row r is the one sent last for the row.
IsNewest(r, i) == newest[r].pending /\ i = Len(inflight[r])

\* C6: transport failure.  When fetch rejects, the surface holds exactly the
\* notice 'Unable to check medication' and no warning block, no exception
\* escapes the check, and the row's severity classes are those it had when
\* that check was invoked (stated for the check invoked last for the row,
\* the one whose result the row is meant to show).
C6_TransportFailure ==
    [][\A r \in Rows : \A i \in 1..MaxInflight : \A resp \in Responses :
          (Respond(r, i, resp) /\ resp.kind = "reject") =>
              /\ ui'[r].html = <<UnableBlock>>
              /\ unhandled' = unhandled
              /\ IsNewest(r, i) =>
                    Tiers(ui'[r]) = newest[r].classes \cap SeverityClasses]_vars

\* A response that is not a success or is malformed: success false or
\* missing, a body that does not parse or is null, or a success body without
\* its warnings or safe field.
IsErrorResponse(resp) ==
    \/ resp.kind \in {"unparseable", "null"}
    \/ resp.kind = "json" /\ ~Truthy(resp.success)
    \/ resp.kind = "json" /\ Truthy(resp.success) /\ ~resp.hasWarnings
    \/ resp.kind = "json" /\ Truthy(resp.success) /\ resp.safe = Undef

\* C7: uniform error outcome.  A non-success or malformed response leaves
\* the row as a transport failure does: the single notice 'Unable to check
\* medication' in the surface, its visibility and the row's severity
\* classes unchanged.
C7_UniformError ==
    [][\A r \in Rows : \A i \in 1..MaxInflight : \A resp \in Responses :
          (Respond(r, i, resp) /\ IsErrorResponse(resp)) =>
              /\ ui'[r].html = <<UnableBlock>>
              /\ ui'[r].display = ui[r].display
              /\ ui'[r].classes = ui[r].classes]_vars

\* The class of the highest severity present in a warning list.
HighestTier(ws) ==
    IF OfSeverity(ws, "high") # <<>> THEN "has-high-warning"
    ELSE IF OfSeverity(ws, "moderate") # <<>> THEN "has-moderate-warning"
    ELSE "has-low-warning"

\* C8: row styling tier.  After a successful response with a non-empty
\* warning list the row carries exactly one severity class, that of the
\* highest severity in the list.
C8_HighestTier ==
    [][\A r \in Rows : \A i \in 1..MaxInflight : \A resp \in Responses :
          (Respond(r, i, resp) /\ HasWarnings(resp)) =>
              Tiers(ui'[r]) = {HighestTier(resp.warnings)}]_vars

\* C8 witness: a row that showed a high-severity result now shows a low and
\* a moderate warning and carries the moderate class alone.
C8_Witness ==
    /\ ui[1].html = <<WarningBlock(Warning("low", 1)), WarningBlock(Warning("moderate", 2))>>
    /\ ui[1].display = "block"
    /\ ui[1].classes = {"has-moderate-warning"}

\* C9: safe acknowledgement.  After a successful response with zero warnings
\* and safe = true the surface shows the 'no concerns' notice and the row's
\* tier is safe.  (That the 2-second timer then hides the surface is
\* C9_EventuallyDismissed, under FairSpec.)
C9_SafeShown ==
    [][\A r \in Rows : \A i \in 1..MaxInflight : \A resp \in Responses :
          (Respond(r, i, resp) /\ ZeroWarnings(resp, "true")) =>
              /\ ui'[r].html = <<SafeBlock>>
              /\ ui'[r].display = "block"
              /\ Tiers(ui'[r]) = {"is-safe"}]_vars

\* Timers fire: the browser runs a pending timer callback once it is due.
FairSpec ==
    Spec /\ \A r \in Rows : WF_vars(Dismiss(r))

\* The dismissal part of C9: a pending dismissal timer leads to the surface
\* being hidden.
C9_EventuallyDismissed ==
    \A r \in Rows : (dismiss[r] > 0) ~> (ui[r].display = "none")

\* C10: loading precedes I/O.  A check invoked with a name that is not blank
\* puts the surface into the visible loading state in the step of the
\* invocation, and every request it sends is sent with the loader showing.
C10_LoadingBeforeIO ==
    [][\A r \in Rows :
          (CheckInvoked(r) /\ ~IsBlank(value[r])) =>
              /\ IsLoading(ui'[r])
              /\ Len(inflight'[r]) > Len(inflight[r])
              /\ \A n \in 1..Len(inflight'[r]) : inflight'[r][n].loaderAtSend]_vars

\* C10 witness: a row whose surface had been hidden by an earlier result is
\* loading again with a request in flight.
C10_Witness ==
    /\ IsLoading(ui[1])
    /\ ui[1].classes = {"is-safe"}
    /\ Len(inflight[1]) = 1
    /\ inflight[1][1].loaderAtSend

\* The trimmed names a and b are equal when case is ignored.
SameIgnoringCase(a, b) ==
    Len(a) = Len(b) /\ \A n \in 1..Len(a) : LowerChar(a[n]) = LowerChar(b[n])

\* The trimmed names of the rows 1..n of the form that are not empty and do
\* not equal name when case is ignored, in the order of the rows.
RECURSIVE OtherNames(_, _, _)
OtherNames(names, name, n) ==
    IF n = 0 THEN <<>>
    ELSE IF ~IsBlank(names[n]) /\ ~SameIgnoringCase(Trim(names[n]), name)
         THEN Append(OtherNames(names, name, n - 1), Trim(names[n]))
         ELSE OtherNames(names, name, n - 1)

\* The requests a step has added to the requests in flight of row r.
Sent(r) == SubSeq(inflight'[r], Len(inflight[r]) + 1, Len(inflight'[r]))

IsNumeric(input) ==
    /\ input.present
    /\ input.value # <<>>
    /\ \A n \in 1..Len(input.value) : input.value[n] \in Digits

\* The number is an integer (it is not NaN).
IsInteger(x) == ~x.nan

\* C12: numeric defaults.  In every request a check sends, age is an
\* integer, 65 when the age input is absent or does not hold a number, and
\* the doses_per_day of every listed row is an integer >= 1, 1 when the
\* row's doses input is absent or does not hold a number.
C12_NumericDefaults ==
    [][\A r \in Rows :
          CheckInvoked(r) =>
              \A n \in 1..Len(Sent(r)) :
                  LET req == Sent(r)[n]
                      meds == req.existing_medications
                  IN  /\ IsInteger(req.age)
                      /\ ~IsNumeric(form.age) => req.age.n = DefaultAge
                      /\ \A m \in 1..Len(meds) :
                            IsInteger(meds[m].doses_per_day) /\ meds[m].doses_per_day.n >= 1
                      /\ \A q \in Rows :
                            LET at == Len(OtherNames(value, req.medication_name, q))
                                listed == /\ ~IsBlank(value[q])
                                          /\ ~SameIgnoringCase(Trim(value[q]), req.medication_name)
                            IN  (listed /\ at <= Len(meds) /\ ~IsNumeric(form.doses[q])) =>
                                    meds[at].doses_per_day.n = DefaultDoses]_vars

\* C13: idempotence of apply.  Applying to a row the result that has just
\* been applied to it (a response of the service or a transport failure)
\* changes neither the content of its warning surface, nor its visibility,
\* nor its severity classes.
C13_ApplyIdempotent ==
    [][\A r \in Rows : \A i \in 1..MaxInflight : \A resp \in Responses :
          Respond(r, i, resp) =>
              LET again == handleResponse(ui'[r], resp).ui
              IN  /\ again.html = ui'[r].html
                  /\ again.display = ui'[r].display
                  /\ again.classes = ui'[r].classes]_vars

\* C13 witness: a high-severity result applied to a row that carried the
\* safe tier, the dismissal timer of the safe notice still pending.
C13_Witness ==
    /\ ui[1].html = <<WarningBlock(Warning("high", 1))>>
    /\ ui[1].display = "block"
    /\ ui[1].classes = {"has-high-warning"}
    /\ dismiss[1] = 1
    /\ inflight[1] = <<>>

\* C14: per-field debounce keys.  An input event on a field leaves the
\* pending debounce timers of every other field pending: a timer that was to
\* check field a is still to check field a after an input event on field b.
C14_PerFieldDebounce ==
    [][\A a \in Rows : \A b \in Rows \ {a} : \A v \in InputValues :
          Input(b, v) =>
              \A k \in 1..Len(debouncers) :
                  debouncers[k] = a => debouncers'[k] = a]_vars

\* C15: row isolation.  The invocation of a check for a row, and the
\* arrival of the response or failure of a request of that row (any result
\* of RowResponses), leave the warning surface and the classes of every
\* other row as they were.
C15_RowIsolation ==
    [][\A a \in Rows :
          (\/ CheckInvoked(a)
           \/ \E i \in 1..MaxInflight : \E resp \in RowResponses : Respond(a, i, resp)) =>
              \A b \in Rows \ {a} : ui'[b] = ui[b]]_vars

\* C15 witness: row 1 shows the high-severity warning of its answered check
\* while row 2 is loading, its request in flight.
C15_Witness ==
    /\ ui[1] = RowUI(<<WarningBlock(Warning("high", 1))>>, "block", {"has-high-warning"})
    /\ IsLoading(ui[2])
    /\ ui[2].classes = {}
    /\ Len(inflight[2]) = 1

\* The severities of the warning blocks a surface displays.
DisplayedSeverities(u) ==
    IF u.display = "block"
    THEN { WarningBlocks(u.html)[n].severity : n \in 1..Len(WarningBlocks(u.html)) }
    ELSE {}

\* The class of the highest severity among a non-empty set of severities.
TierOf(sevs) ==
    IF "high" \in sevs THEN "has-high-warning"
    ELSE IF "moderate" \in sevs THEN "has-moderate-warning"
    ELSE "has-low-warning"

\* C16: styling follows the displayed warnings.  Whenever no request of a
\* row is in flight, the row carries a high, moderate or low class only if
\* its surface displays a warning block, and the class is then that of the
\* highest severity displayed.
C16_StylingFollowsWarnings ==
    \A r \in Rows :
        inflight[r] = <<>> =>
            LET tiers == Tiers(ui[r]) \ {"is-safe"}
                sevs == DisplayedSeverities(ui[r])
            IN  tiers # {} => (sevs # {} /\ tiers = {TierOf(sevs)})

\* C17: no duplicate requests.  One event sends at most one request for a
\* field, and the check a debounce timer runs after an edit burst sends
\* none when a request has been sent for the field since the last input
\* event (by a blur during the debounce window or by the timer of another
\* initialisation): the final value of a burst is requested once.
C17_NoDuplicateRequests ==
    [][\A r \in Rows :
          /\ CheckInvoked(r) => Len(Sent(r)) <= 1
          /\ (\E k \in 1..Len(debouncers) : debouncers[k] = r /\ Later(k)) =>
                (Sent(r) # <<>> => ~burst.requested)]_vars

\* The surface holds what a check newer than a safe notice has put there: the
\* loader, warning blocks or an error notice.
HoldsNewerContent(u) ==
    \/ u.html = <<LoaderBlock>>
    \/ WarningBlocks(u.html) # <<>>
    \/ ErrorNotices(u.html) # <<>>

\* C18: auto-dismiss is confined to the safe notice.  When a dismissal timer
\* fires on a row whose surface holds the loader, warnings or an error
\* notice, the surface and the row are left as they are.
C18_DismissOnlySafeNotice ==
    [][\A r \in Rows :
          (Dismiss(r) /\ HoldsNewerContent(ui[r])) => ui'[r] = ui[r]]_vars

\* C19: cleared stays cleared.  While a row's surface is as the check of an
\* empty name left it (empty and hidden; any check of a non-empty name
\* would have put the loader there), the arrival of a response or failure
\* of a request of the row, necessarily sent before the clear, changes
\* neither the surface nor the row's classes.
C19_ClearedStaysCleared ==
    [][\A r \in Rows : \A i \in 1..MaxInflight : \A resp \in LiveResponses :
          (Respond(r, i, resp) /\ IsCleared(ui[r])) => ui'[r] = ui[r]]_vars

\* C20: suggestion staleness.  The response of a suggestion request that is
\* outdated when it arrives (a later search was started, the query dropped
\* below two characters, or a candidate was selected, since the request was
\* sent) neither opens the panel nor puts its candidates there.
C20_StaleSuggestionIgnored ==
    [][\A r \in Rows : \A i \in 1..MaxSearches : \A resp \in SuggestResponses :
          (SuggestRespond(r, i, resp) /\ autocomplete[r].searches[i].stale) =>
              (autocomplete'[r].panel.active =>
                  autocomplete'[r].panel = autocomplete[r].panel)]_vars

====
